---- MODULE Spec2Model ----
(***************************************************************************)
(* Glyph scanner and codec of pegovka-messages (src/src/main.rs).          *)
(*                                                                         *)
(* image[x][y] is the pixel grid (0 or 1), indexed column first as in the  *)
(* source; parsed[x][y] is the consumption mask of parse_image.  One       *)
(* action is one iteration of parse_image's double loop.  Values are the   *)
(* source's i32: a shift of 32 or more and an overflowing sum end the run  *)
(* in a debug build and wrap in a release build.                           *)
(***************************************************************************)
EXTENDS Integers, Sequences, FiniteSets, TLC

VARIABLES
    width,      \* iw.width
    height,     \* iw.height
    image,      \* iw.image
    parsed,     \* the BooleanGrid mask of parse_image
    codes,      \* the Vec<Token> parse_image returns
    svg,        \* the annotations parse_image hands to svg.add_annotation
    warnings,   \* number of "Warning: embedded symbol not recognized" lines
    scan_x,     \* loop variable x of parse_image
    scan_y,     \* loop variable y of parse_image
    pc,         \* "parse" | "done" | "panic" | "encode" | "show" | "shown"
    build,      \* "debug" | "release": decides what an arithmetic overflow does
    last,       \* the most recent call of try_parse_symbol by parse_image:
                \* its anchor (x, y) and what it returned (res)
    token_value, \* the argument of encode_symbol (token.0 in show_symbols)
    encoded     \* what encode_symbol computed

vars == <<width, height, image, parsed, codes, svg, warnings, scan_x, scan_y,
          pc, build, last, token_value, encoded>>

(***************************************************************************)
(* Bounds of the model.                                                    *)
(***************************************************************************)
MaxLit == 5          \* at most this many set pixels in a scanned grid
MaxValue == 4096     \* encode_symbol is tried on every value 0..MaxValue
MaxTokens == 2       \* at most this many tokens in a picture of show_symbols

Builds == {"debug", "release"}

(***************************************************************************)
(* i32 arithmetic.                                                         *)
(***************************************************************************)
MaxI32 == 2147483647
MinI32 == -MaxI32 - 1

RECURSIVE Pow2(_)
Pow2(n) == IF n = 0 THEN 1 ELSE 2 * Pow2(n - 1)

Ok(v) == [panic |-> "", v |-> v]
Panicked(why) == [panic |-> why, v |-> 0]

\* 1 << n on i32
Shl1(n, bld) ==
    IF n >= 32
    THEN IF bld = "debug" THEN Panicked("attempt to shift left with overflow")
         ELSE IF n % 32 = 31 THEN Ok(MinI32) ELSE Ok(Pow2(n % 32))
    ELSE IF n = 31 THEN Ok(MinI32) ELSE Ok(Pow2(n))

\* a + b on i32, for b a result of Shl1 (a power of two, or MinI32)
Add32(a, b, bld) ==
    IF b = MinI32
    THEN IF a >= 0 THEN Ok(a + b)
         ELSE IF bld = "debug" THEN Panicked("attempt to add with overflow")
         ELSE Ok((a + MaxI32) + 1)
    ELSE IF a <= MaxI32 - b THEN Ok(a + b)
         ELSE IF bld = "debug" THEN Panicked("attempt to add with overflow")
         ELSE Ok((a + MinI32) + (b + MinI32))

\* -a on i32
Neg32(a, bld) ==
    IF a = MinI32
    THEN IF bld = "debug" THEN Panicked("attempt to negate with overflow")
         ELSE Ok(MinI32)
    ELSE Ok(-a)

(***************************************************************************)
(* Grids.                                                                  *)
(***************************************************************************)
InBounds(w, h, cx, cy) == cx >= 0 /\ cx < w /\ cy >= 0 /\ cy < h

create_empty_image(w, h) == [cx \in 0..(w - 1) |-> [cy \in 0..(h - 1) |-> 0]]

EmptyMask(w, h) == [cx \in 0..(w - 1) |-> [cy \in 0..(h - 1) |-> FALSE]]

\* the image parse_file builds from a picture whose white pixels are `lit`
LoadImage(w, h, lit) ==
    [cx \in 0..(w - 1) |-> [cy \in 0..(h - 1) |-> IF <<cx, cy>> \in lit THEN 1 ELSE 0]]

(***************************************************************************)
(* try_parse_symbol                                                        *)
(***************************************************************************)
is_full_frame(img, x, y, delta) ==
    \A i \in 0..(delta - 1) :
        /\ img[x][y + i] = 1
        /\ img[x + delta - 1][y + 1] = 1
        /\ img[x + i][y] = 1
        /\ img[x + i][y + delta - 1] = 1

\* the anchor test: "panic" when a read leaves the grid, else TRUE or FALSE
AnchorTest(img, w, h, x, y, set) ==
    IF ~InBounds(w, h, x + 1, y) THEN "panic"
    ELSE IF img[x + 1][y] # set THEN "no"
    ELSE IF ~InBounds(w, h, x, y + 1) THEN "panic"
    ELSE IF img[x][y + 1] # set THEN "no"
    ELSE IF ~InBounds(w, h, x - 1, y) THEN "panic"
    ELSE IF img[x - 1][y] = set THEN "no"
    ELSE IF ~InBounds(w, h, x, y - 1) THEN "panic"
    ELSE IF img[x][y - 1] = set THEN "no"
    ELSE "yes"

DeltaLimit == 10

\* the loop "while delta < 10", entered with delta
RECURSIVE FindDelta(_, _, _, _, _, _, _)
FindDelta(img, w, h, x, y, set, delta) ==
    IF delta >= DeltaLimit THEN delta
    ELSE IF x + delta >= w \/ y + delta >= h THEN delta
    ELSE IF img[x + delta][y] # set \/ img[x][y + delta] # set THEN delta
    ELSE FindDelta(img, w, h, x, y, set, delta + 1)

\* the shift amount of body cell (cx, cy) in a body of side n
BitIndex(cx, cy, n) == cy * n + cx

\* the loop over cx of row cy, from cx on, with accumulator acc
RECURSIVE BodyRow(_, _, _, _, _, _, _, _, _)
BodyRow(img, x, y, set, n, cy, cx, acc, bld) ==
    IF acc.panic # "" \/ cx >= n THEN acc
    ELSE IF img[x + 1 + cx][y + 1 + cy] # set
    THEN BodyRow(img, x, y, set, n, cy, cx + 1, acc, bld)
    ELSE LET bit == Shl1(BitIndex(cx, cy, n), bld)
         IN IF bit.panic # "" THEN bit
            ELSE BodyRow(img, x, y, set, n, cy, cx + 1,
                         Add32(acc.v, bit.v, bld), bld)

\* the loop over cy, from cy on: final_value before the sign is applied
RECURSIVE BodyValue(_, _, _, _, _, _, _, _)
BodyValue(img, x, y, set, n, cy, acc, bld) ==
    IF acc.panic # "" \/ cy >= n THEN acc
    ELSE BodyValue(img, x, y, set, n, cy + 1,
                   BodyRow(img, x, y, set, n, cy, 0, acc, bld), bld)

\* dy of the returned glyph
ExtentDy(delta, extra_bit, set) == delta + extra_bit

NotCalled == [tag |-> "NotCalled"]
NoGlyph == [tag |-> "None"]
PanicResult(why) == [tag |-> "panic", panic |-> why]

\* a classification that leaves the outer value in a Variable's glyph
ClassifyKeepsOuter(control_bit, final_value, inner) ==
    IF inner.tag = "GenericGlyph"
    THEN [glyph_type |-> "Variable", kind |-> "Variable", value |-> final_value]
    ELSE IF control_bit
    THEN [glyph_type |-> "Command", kind |-> "Command", value |-> final_value]
    ELSE [glyph_type |-> "Ineteger", kind |-> "Integer", value |-> final_value]

\* glyph_type and glyph: the classification and the override by the
\* embedded glyph
Classify(control_bit, final_value, inner) ==
    IF inner.tag = "GenericGlyph"
    THEN [glyph_type |-> "Variable", kind |-> "Variable", value |-> inner.value]
    ELSE IF control_bit
    THEN [glyph_type |-> "Command", kind |-> "Command", value |-> final_value]
    ELSE [glyph_type |-> "Ineteger", kind |-> "Integer", value |-> final_value]

\* a warning printed by every recursion, whatever it returns
WarnedOnRecursion(recursed, inner) == IF recursed THEN 1 ELSE 0

\* the println of the ParseResult::None arm
Warned(recursed, inner) == IF recursed /\ inner.tag = "None" THEN 1 ELSE 0

RECURSIVE try_parse_symbol(_, _, _, _, _, _, _)
try_parse_symbol(img, w, h, x, y, set, bld) ==
    LET anchor == AnchorTest(img, w, h, x, y, set)
    IN
    IF anchor = "panic" THEN PanicResult("index out of bounds")
    ELSE IF anchor = "no" THEN NoGlyph
    ELSE
    LET control_bit == img[x][y] = set
        delta == FindDelta(img, w, h, x, y, set, 1)
        body == BodyValue(img, x, y, set, delta - 1, 0, Ok(0), bld)
    IN
    IF body.panic # "" THEN PanicResult(body.panic)
    ELSE IF ~InBounds(w, h, x, y + delta) THEN PanicResult("index out of bounds")
    ELSE
    LET extra_bit == img[x][y + delta]
        signed == IF extra_bit = set THEN Neg32(body.v, bld) ELSE body
    IN
    IF signed.panic # "" THEN PanicResult(signed.panic)
    ELSE
    LET final_value == signed.v
        recursed == control_bit /\ is_full_frame(img, x, y, delta) /\ set = 1
        inner == IF recursed
                 THEN try_parse_symbol(img, w, h, x + 1, y + 1, 0, bld)
                 ELSE NotCalled
    IN
    IF inner.tag = "panic" THEN inner
    ELSE
    LET c == Classify(control_bit, final_value, inner)
    IN [tag |-> "GenericGlyph",
        dx |-> delta,
        dy |-> ExtentDy(delta, extra_bit, set),
        value |-> final_value,
        glyph_type |-> c.glyph_type,
        glyph |-> [kind |-> c.kind, value |-> c.value],
        \* locals of the call, kept for the properties below
        x |-> x, y |-> y, set |-> set,
        delta |-> delta,
        magnitude |-> body.v,
        warned |-> Warned(recursed, inner),
        inner |-> inner]

(***************************************************************************)
(* parse_image                                                             *)
(***************************************************************************)
mark_parsed(p, x, y, dx, dy) ==
    [cx \in DOMAIN p |->
        [cy \in DOMAIN p[cx] |->
            IF cx >= x /\ cx < x + dx /\ cy >= y /\ cy < y + dy
            THEN TRUE ELSE p[cx][cy]]]

\* the loops nested the other way round: y inside x
AdvanceColumnFirst(x, y, w) ==
    IF y + 1 < height - 2 THEN <<x, y + 1>> ELSE <<x + 1, 1>>

\* the loop indices after (x, y): x runs over 1..(width-2) inside y
Advance(x, y, w) ==
    IF x + 1 < w - 2 THEN <<x + 1, y>> ELSE <<1, y + 1>>

InLoop == pc = "parse" /\ scan_y < height - 2 /\ scan_x < width - 2

Step ==
    /\ scan_x' = Advance(scan_x, scan_y, width)[1]
    /\ scan_y' = Advance(scan_x, scan_y, width)[2]

Call == try_parse_symbol(image, width, height, scan_x, scan_y, 1, build)

Called == [x |-> scan_x, y |-> scan_y, res |-> Call]

\* "if parsed[x][y] { continue; }"
SkipParsed ==
    /\ InLoop
    /\ parsed[scan_x][scan_y]
    /\ Step
    /\ UNCHANGED <<width, height, image, parsed, codes, svg, warnings, pc,
                   build, last, token_value, encoded>>

\* "ParseResult::None => continue"
SkipNone ==
    /\ InLoop
    /\ ~parsed[scan_x][scan_y]
    /\ Call.tag = "None"
    /\ last' = Called
    /\ Step
    /\ UNCHANGED <<width, height, image, parsed, codes, svg, warnings, pc,
                   build, token_value, encoded>>

IsToken(r) == r.glyph_type = "Command" \/ r.glyph_type = "Variable"

\* the ParseResult::GenericGlyph arm
Recognize ==
    /\ InLoop
    /\ ~parsed[scan_x][scan_y]
    /\ Call.tag = "GenericGlyph"
    /\ last' = Called
    /\ warnings' = warnings + Call.warned
    /\ parsed' = mark_parsed(parsed, scan_x, scan_y, Call.dx, Call.dy)
    /\ svg' = Append(svg, Call)
    /\ codes' = IF IsToken(Call)
                THEN Append(codes, <<Call.value, Call.glyph>>)
                ELSE codes
    /\ Step
    /\ UNCHANGED <<width, height, image, pc, build, token_value, encoded>>

\* a panic inside try_parse_symbol ends the run
Abort ==
    /\ InLoop
    /\ ~parsed[scan_x][scan_y]
    /\ Call.tag = "panic"
    /\ last' = Called
    /\ pc' = "panic"
    /\ UNCHANGED <<width, height, image, parsed, codes, svg, warnings, scan_x,
                   scan_y, build, token_value, encoded>>

\* the loops are over: println!("Done"); codes
Finish ==
    /\ pc = "parse"
    /\ ~InLoop
    /\ pc' = "done"
    /\ UNCHANGED <<width, height, image, parsed, codes, svg, warnings, scan_x,
                   scan_y, build, last, token_value, encoded>>

Next == SkipParsed \/ SkipNone \/ Recognize \/ Abort \/ Finish

(***************************************************************************)
(* encode_symbol                                                           *)
(***************************************************************************)
\* the least k with 2^k >= n, for n >= 1: ceil(log2(n))
RECURSIVE CeilLog2From(_, _)
CeilLog2From(n, k) == IF Pow2(k) >= n THEN k ELSE CeilLog2From(n, k + 1)

CeilLog2(n) == CeilLog2From(n, 0)

\* the number of significant bits of an f32
F32Bits == 24

\* "n as f32" for n >= 1, as mantissa m and exponent e (the f32 is m * 2^e):
\* n is rounded to F32Bits significant bits, to nearest, ties to even
AsF32(n) ==
    IF n < Pow2(F32Bits) THEN [m |-> n, e |-> 0]
    ELSE LET e == CHOOSE k \in 1..8 :
                      n \div Pow2(k) < Pow2(F32Bits) /\ n \div Pow2(k - 1) >= Pow2(F32Bits)
             q == n \div Pow2(e)
             r == n % Pow2(e)
             half == Pow2(e - 1)
             up == r > half \/ (r = half /\ q % 2 = 1)
         IN [m |-> IF up THEN q + 1 ELSE q, e |-> e]

\* floor of sqrt(n): the square root truncated instead of rounded up
FloorSqrt(n) == CHOOSE d \in 0..n : d * d <= n /\ (d + 1) * (d + 1) > n

\* ceil of sqrt(n)
RECURSIVE CeilSqrtFrom(_, _)
CeilSqrtFrom(n, d) == IF d * d >= n THEN d ELSE CeilSqrtFrom(n, d + 1)

CeilSqrt(n) == CeilSqrtFrom(n, 0)

\* ln: ((value + 1) as f32).log2().ceil(), 1.0 for value 0.  The logarithm
\* is taken exactly; the values tried are ones on which the f32 logarithm
\* has the same ceiling (its operand is a power of two, or below 2^13).
\* A wrapped value + 1 is negative: its logarithm is NaN.
LogCeil(value, bld) ==
    IF value = 0 THEN [panic |-> "", nan |-> FALSE, v |-> 1]
    ELSE LET sum == Add32(value, 1, bld)
         IN IF sum.panic # "" THEN [panic |-> sum.panic, nan |-> FALSE, v |-> 0]
            ELSE IF sum.v < 1 THEN [panic |-> "", nan |-> TRUE, v |-> 0]
            ELSE [panic |-> "", nan |-> FALSE,
                  v |-> CeilLog2(AsF32(sum.v).m) + AsF32(sum.v).e]

\* d: ln.sqrt().ceil() as usize; NaN as usize is 0
SideLength(ln) == IF ln.nan THEN 0 ELSE CeilSqrt(ln.v)

\* the body written column by column
EncodeBitIndexTransposed(cx, cy, d) == cy + cx * d

\* the shift amount of body cell (cx, cy) in encode_symbol
EncodeBitIndex(cx, cy, d) == cx + cy * d

\* "(value & bit) > 0" for bit = 1 << (cx + cy * d): "panic", TRUE or FALSE
EncodeBit(value, cx, cy, d, bld) ==
    LET bit == Shl1(EncodeBitIndex(cx, cy, d), bld)
    IN IF bit.panic # "" THEN "panic"
       ELSE IF bit.v > 0 /\ (value \div bit.v) % 2 = 1 THEN "set"
       ELSE "clear"

encode_symbol(value, bld) ==
    IF value < 0 THEN [tag |-> "panic", panic |-> "assertion failed: value >= 0", d |-> 0]
    ELSE
    LET ln == LogCeil(value, bld)
    IN
    IF ln.panic # "" THEN [tag |-> "panic", panic |-> ln.panic, d |-> 0]
    ELSE
    LET d == SideLength(ln)
        body == (0..(d - 1)) \X (0..(d - 1))
    IN
    IF \E c \in body : EncodeBit(value, c[1], c[2], d, bld) = "panic"
    THEN [tag |-> "panic", panic |-> "attempt to shift left with overflow", d |-> d]
    ELSE [tag |-> "image", d |-> d,
          image |-> [cx \in 0..d |-> [cy \in 0..d |->
                        IF cx = 0 \/ cy = 0 THEN 1
                        ELSE IF EncodeBit(value, cx - 1, cy - 1, d, bld) = "set"
                        THEN 1 ELSE 0]]]

(***************************************************************************)
(* show_symbols: the picture of a list of tokens.  Each token's glyph is   *)
(* drawn three times in a row of its own, a Variable's four times.         *)
(***************************************************************************)
SYMBOLS_LIST == <<0, 12, 417, 401, 365, 146, 40, 448, 2, 8>>

ShowOffset == 2
ShowGap == 4
ShowRepeats == 4

ImageLen(im) == Cardinality(DOMAIN im)

RECURSIVE MaxDx(_, _)
MaxDx(images, n) ==
    IF n = 0 THEN 0
    ELSE LET m == MaxDx(images, n - 1)
         IN IF ImageLen(images[n]) > m THEN ImageLen(images[n]) ELSE m

\* y0 of the row of token number index; the picture's height for
\* index = Len(images) + 1
RECURSIVE RowY0(_, _)
RowY0(images, index) ==
    IF index = 1 THEN ShowOffset
    ELSE RowY0(images, index - 1) + ImageLen(images[index - 1]) + ShowGap

ShowImages(tokens, bld) ==
    [i \in DOMAIN tokens |-> encode_symbol(tokens[i].value, bld).image]

ShowWidth(images) == ShowRepeats * (MaxDx(images, Len(images)) + ShowGap)

ShowHeight(images) == RowY0(images, Len(images) + 1)

\* the white pixels show_symbols sets
ShowLit(tokens, images) ==
    UNION {
        {<<ShowOffset + (MaxDx(images, Len(images)) + ShowGap) * ir[2] + c[1],
           RowY0(images, ir[1]) + c[2]>> :
            c \in {b \in (0..(ImageLen(images[ir[1]]) - 1))
                          \X (0..(ImageLen(images[ir[1]]) - 1)) :
                      images[ir[1]][b[1]][b[2]] = 1}} :
        ir \in {p \in (DOMAIN tokens) \X (0..(ShowRepeats - 1)) :
                   tokens[p[1]].kind = "Variable" \/ p[2] # ShowRepeats - 1}}

(***************************************************************************)
(* The scanned pictures of Spec: every square picture of side 3, 4 or 5    *)
(* with at most MaxLit white pixels, and the pictures show_symbols draws   *)
(* of up to MaxTokens commands of SYMBOLS_LIST (in the list's order),      *)
(* decoded by the debug build that the usage line                          *)
(* "cargo run input_file output_file" makes.                               *)
(***************************************************************************)
\* the sets of at most k of the numbers 0..(n-1), each made once by adding
\* its greatest element last
RECURSIVE IndexSetsUpTo(_, _)
IndexSetsUpTo(n, k) ==
    IF k = 0 THEN {{}}
    ELSE LET T == IndexSetsUpTo(n, k - 1)
         IN T \cup {p[1] \cup {p[2]} :
                      p \in {q \in T \X (0..(n - 1)) :
                                 /\ Cardinality(q[1]) = k - 1
                                 /\ \A e \in q[1] : e < q[2]}}

\* the subsets of the cells of a w * h grid with at most k elements
CellSetsUpTo(w, h, k) ==
    {{<<i % w, i \div w>> : i \in ix} : ix \in IndexSetsUpTo(w * h, k)}

\* the subsets of S with at most k elements
SubsetsUpTo(S, k) == {T \in SUBSET S : Cardinality(T) <= k}

ScanSides == {3, 4, 5}

ScanStart(w, h, lit, bld) ==
    /\ width = w
    /\ height = h
    /\ image = LoadImage(w, h, lit)
    /\ parsed = EmptyMask(w, h)
    /\ codes = <<>>
    /\ svg = <<>>
    /\ warnings = 0
    /\ scan_x = 1
    /\ scan_y = 1
    /\ pc = "parse"
    /\ build = bld
    /\ last = [x |-> 0, y |-> 0, res |-> NotCalled]
    /\ token_value = 0
    /\ encoded = NotCalled

\* the elements of a set of numbers in increasing order
RECURSIVE Ascending(_)
Ascending(S) ==
    IF S = {} THEN <<>>
    ELSE LET m == CHOOSE e \in S : \A o \in S : e <= o
         IN <<m>> \o Ascending(S \ {m})

\* the tokens show_all_symbols_from_dict makes of the codes numbered by ix
DictTokens(ix) ==
    [k \in DOMAIN ix |-> [value |-> SYMBOLS_LIST[ix[k]], kind |-> "Command"]]

ShownStart(tokens, bld) ==
    LET images == ShowImages(tokens, bld)
    IN ScanStart(ShowWidth(images), ShowHeight(images),
                 ShowLit(tokens, images), bld)

InitLit ==
    \E side \in ScanSides :
        \E lit \in CellSetsUpTo(side, side, MaxLit) :
            ScanStart(side, side, lit, "debug")

InitShown ==
    \E S \in SubsetsUpTo(DOMAIN SYMBOLS_LIST, MaxTokens) \ {{}} :
        ShownStart(DictTokens(Ascending(S)), "debug")

Init == InitLit \/ InitShown

Spec == Init /\ [][Next]_vars

(***************************************************************************)
(* SpecWide: pictures with one frame of side delta at (1, 1), one body     *)
(* cell set (or none), the anchor cell and the sign cell set or clear,     *)
(* decoded by a debug or a release build.                                  *)
(***************************************************************************)
WideSide == DeltaLimit + 3

WideFrame(delta) ==
    {<<1 + i, 1>> : i \in 1..(delta - 1)} \cup {<<1, 1 + i>> : i \in 1..(delta - 1)}

InitWide ==
    \E delta \in 2..DeltaLimit :
        \E body \in CellSetsUpTo(delta - 1, delta - 1, 1) :
            \E corner \in SUBSET {<<1, 1>>} :
                \E sign \in SUBSET {<<1, 1 + delta>>} :
                    \E bld \in Builds :
                        ScanStart(WideSide, WideSide,
                                  WideFrame(delta) \cup corner \cup sign
                                      \cup {<<2 + c[1], 2 + c[2]>> : c \in body},
                                  bld)

SpecWide == InitWide /\ [][Next]_vars

(***************************************************************************)
(* SpecEncode: encode_symbol on a value, show_symbols drawing the one      *)
(* glyph, and the payload step of try_parse_symbol (the extent and the     *)
(* body value, lines 252-273) at the glyph's corner.                       *)
(***************************************************************************)
\* values at which value + 1 is not an f32, and a value of 26 bits
BoundaryValues ==
    {Pow2(24) - 1, Pow2(24), Pow2(25) - 1, Pow2(25), Pow2(25) + 1, 3 * Pow2(24)}

Values == (0..MaxValue) \cup BoundaryValues

InitEncode ==
    \E v \in Values : \E bld \in Builds :
        /\ width = 0
        /\ height = 0
        /\ image = <<>>
        /\ parsed = <<>>
        /\ codes = <<>>
        /\ svg = <<>>
        /\ warnings = 0
        /\ scan_x = 0
        /\ scan_y = 0
        /\ pc = "encode"
        /\ build = bld
        /\ last = [x |-> 0, y |-> 0, res |-> NotCalled]
        /\ token_value = v
        /\ encoded = NotCalled

EncodeSymbol ==
    /\ pc = "encode"
    /\ encode_symbol(token_value, build).tag = "image"
    /\ encoded' = encode_symbol(token_value, build)
    /\ pc' = "show"
    /\ UNCHANGED <<width, height, image, parsed, codes, svg, warnings, scan_x,
                   scan_y, build, last, token_value>>

EncodeAbort ==
    /\ pc = "encode"
    /\ encode_symbol(token_value, build).tag = "panic"
    /\ encoded' = encode_symbol(token_value, build)
    /\ pc' = "panic"
    /\ UNCHANGED <<width, height, image, parsed, codes, svg, warnings, scan_x,
                   scan_y, build, last, token_value>>

ShowSymbols ==
    /\ pc = "show"
    /\ LET tokens == <<[value |-> token_value, kind |-> "Command"]>>
           images == <<encoded.image>>
       IN /\ width' = ShowWidth(images)
          /\ height' = ShowHeight(images)
          /\ image' = LoadImage(ShowWidth(images), ShowHeight(images),
                                ShowLit(tokens, images))
          /\ parsed' = EmptyMask(ShowWidth(images), ShowHeight(images))
    /\ pc' = "shown"
    /\ UNCHANGED <<codes, svg, warnings, scan_x, scan_y, build, last,
                   token_value, encoded>>

\* lines 252-273 of try_parse_symbol: delta and the body value
Payload(img, w, h, x, y, set, bld) ==
    LET delta == FindDelta(img, w, h, x, y, set, 1)
        body == BodyValue(img, x, y, set, delta - 1, 0, Ok(0), bld)
    IN IF body.panic # "" THEN PanicResult(body.panic)
       ELSE [tag |-> "payload", delta |-> delta, magnitude |-> body.v]

Redecode ==
    /\ pc = "shown"
    /\ last' = [x |-> ShowOffset, y |-> ShowOffset,
                res |-> Payload(image, width, height, ShowOffset, ShowOffset,
                                1, build)]
    /\ pc' = "decoded"
    /\ UNCHANGED <<width, height, image, parsed, codes, svg, warnings, scan_x,
                   scan_y, build, token_value, encoded>>

NextEncode == EncodeSymbol \/ EncodeAbort \/ ShowSymbols \/ Redecode

SpecEncode == InitEncode /\ [][NextEncode]_vars

(***************************************************************************)
(* What the properties speak of.                                           *)
(***************************************************************************)
\* the cells of a glyph's bounding box
Box(g) == (g.x..(g.x + g.dx - 1)) \X (g.y..(g.y + g.dy - 1))

\* the glyphs parse_image recognized, in the order it recognized them
Recognized == {svg[i] : i \in DOMAIN svg}

\* a recognized glyph whose embedded glyph was decoded too
HasInner(g) == g.inner.tag = "GenericGlyph"

\* every glyph some call of try_parse_symbol returned: at polarity 1 by the
\* scan, at polarity 0 by the recursion
Returned == Recognized \cup {g.inner : g \in {r \in Recognized : HasInner(r)}}

\* the anchor test of the specification, at polarity set
AnchorAt(x, y, set) ==
    /\ image[x + 1][y] = set
    /\ image[x][y + 1] = set
    /\ image[x - 1][y] # set
    /\ image[x][y - 1] # set

\* the shift amounts of the body cells that equal the polarity
BodyBits(x, y, delta, set) ==
    {c[2] * (delta - 1) + c[1] :
        c \in {b \in (0..(delta - 2)) \X (0..(delta - 2)) :
                  image[x + 1 + b[1]][y + 1 + b[2]] = set}}

\* the exact sum of 2^b over a set of shift amounts below 31
RECURSIVE SumPow2(_)
SumPow2(B) ==
    IF B = {} THEN 0
    ELSE LET b == CHOOSE e \in B : TRUE
         IN Pow2(b) + SumPow2(B \ {b})

\* the sign flag of a glyph: its sign cell equals its polarity
SignSet(g) == image[g.x][g.y + g.delta] = g.set

(***************************************************************************)
(* C2 (as claimed).  After a full scan, the bounding boxes of two          *)
(* distinct recognized glyphs share no cell, and every masked cell lies    *)
(* in the box of exactly one recognized glyph.                             *)
(***************************************************************************)
C2_BoxesDisjoint ==
    pc = "done" =>
        /\ \A i, j \in DOMAIN svg :
               i # j => Box(svg[i]) \cap Box(svg[j]) = {}
        /\ \A cx \in DOMAIN parsed : \A cy \in DOMAIN parsed[cx] :
               parsed[cx][cy] =>
                   Cardinality({i \in DOMAIN svg : <<cx, cy>> \in Box(svg[i])}) = 1

(***************************************************************************)
(* C3 (as claimed).  A glyph accepted at polarity 1 is Integer iff its     *)
(* anchor cell is unset, Command iff the anchor cell is set and the square *)
(* is not a full frame, Variable iff the anchor cell is set, the square is *)
(* a full frame and the decode at (x+1, y+1) with polarity 0 returns a     *)
(* glyph, whose value the outer glyph then reports.                        *)
(***************************************************************************)
AnchorSet(g) == image[g.x][g.y] = 1

FullFrame(g) == is_full_frame(image, g.x, g.y, g.delta)

InnerDecodes(g) ==
    try_parse_symbol(image, width, height, g.x + 1, g.y + 1, 0, build).tag
        = "GenericGlyph"

InnerValue(g) ==
    try_parse_symbol(image, width, height, g.x + 1, g.y + 1, 0, build).value

C3_ClassifiedAsClaimed ==
    \A g \in Recognized :
        /\ g.glyph_type = "Ineteger" <=> ~AnchorSet(g)
        /\ g.glyph_type = "Command" <=> (AnchorSet(g) /\ ~FullFrame(g))
        /\ g.glyph_type = "Variable" <=>
               (AnchorSet(g) /\ FullFrame(g) /\ InnerDecodes(g))
        /\ g.glyph_type = "Variable" => g.glyph.value = InnerValue(g)

(***************************************************************************)
(* C3 (amended).  A glyph accepted at polarity 1 is Integer iff its anchor *)
(* cell is unset; Command iff the anchor cell is set and either the square *)
(* is not a full frame or the decode at (x+1, y+1) with polarity 0 returns *)
(* no glyph; Variable iff the anchor cell is set, the square is a full     *)
(* frame and that decode returns a glyph.  The glyph of a Variable carries *)
(* the value decoded from the interior; the glyph of an Integer or a       *)
(* Command carries the outer signed magnitude.                             *)
(***************************************************************************)
C3_Classified ==
    \A g \in Recognized :
        /\ g.glyph_type = "Ineteger" <=> ~AnchorSet(g)
        /\ g.glyph_type = "Command" <=>
               (AnchorSet(g) /\ (~FullFrame(g) \/ ~InnerDecodes(g)))
        /\ g.glyph_type = "Variable" <=>
               (AnchorSet(g) /\ FullFrame(g) /\ InnerDecodes(g))
        /\ g.glyph.kind = (IF g.glyph_type = "Ineteger" THEN "Integer"
                           ELSE g.glyph_type)
        /\ g.glyph.value = (IF g.glyph_type = "Variable" THEN InnerValue(g)
                            ELSE g.value)

\* all three kinds have been recognized in one scan's lifetime: here a
\* Variable whose interior value differs from the outer value
C3_Witness ==
    \E g \in Recognized :
        /\ g.glyph_type = "Variable"
        /\ g.glyph.value # g.value

(***************************************************************************)
(* C4.  A full-frame command candidate whose interior does not pass the    *)
(* anchor test at polarity 0 is not dropped: try_parse_symbol answers "no  *)
(* glyph" only when the anchor test fails, the glyph is a Command carrying *)
(* the outer signed magnitude, the scanner marks its box and emits it as a *)
(* token, and exactly one warning is printed for each such glyph.          *)
(***************************************************************************)
Anomalous(g) ==
    /\ AnchorSet(g)
    /\ FullFrame(g)
    /\ ~AnchorAt(g.x + 1, g.y + 1, 0)

SignedMagnitude(g) ==
    IF SignSet(g) THEN 0 - SumPow2(BodyBits(g.x, g.y, g.delta, g.set))
    ELSE SumPow2(BodyBits(g.x, g.y, g.delta, g.set))

C4_AnomalyEmitted ==
    /\ last.res.tag = "None" => ~AnchorAt(last.x, last.y, 1)
    /\ \A g \in Recognized :
           Anomalous(g) =>
               /\ g.glyph_type = "Command"
               /\ g.glyph = [kind |-> "Command", value |-> SignedMagnitude(g)]
               /\ g.value = SignedMagnitude(g)
               /\ \A c \in Box(g) : parsed[c[1]][c[2]]
               /\ \E k \in DOMAIN codes : codes[k] = <<g.value, g.glyph>>
    /\ warnings = Cardinality({i \in DOMAIN svg : Anomalous(svg[i])})

C4_Witness ==
    /\ pc = "done"
    /\ warnings = 1
    /\ \E g \in Recognized : Anomalous(g) /\ g.value # 0

(***************************************************************************)
(* C5.  The tokens are exactly the recognized glyphs of kind Command or    *)
(* Variable, in the order of recognition; Integers are recognized and      *)
(* masked but not emitted; the anchors of the recognized glyphs, and so of *)
(* the tokens, are strictly increasing in (y, x) lexicographic order; and  *)
(* every recognized anchor was unmasked when it was reached.               *)
(***************************************************************************)
RECURSIVE TokensOf(_)
TokensOf(gs) ==
    IF gs = <<>> THEN <<>>
    ELSE IF IsToken(Head(gs))
    THEN <<(<<Head(gs).value, Head(gs).glyph>>)>> \o TokensOf(Tail(gs))
    ELSE TokensOf(Tail(gs))

RasterBefore(a, b) == a.y < b.y \/ (a.y = b.y /\ a.x < b.x)

C5_ScanOrder ==
    /\ codes = TokensOf(svg)
    /\ \A i, j \in DOMAIN svg : i < j =>
           /\ RasterBefore(svg[i], svg[j])
           /\ <<svg[j].x, svg[j].y>> \notin Box(svg[i])
    /\ \A g \in Recognized :
           /\ g.glyph_type \in {"Ineteger", "Command", "Variable"}
           /\ \A c \in Box(g) : parsed[c[1]][c[2]]

\* a finished scan that emitted several tokens, a later one to the left of
\* an earlier one
C5_Witness ==
    /\ pc = "done"
    /\ Len(codes) >= 2
    /\ codes = TokensOf(svg)
    /\ \E i, j \in DOMAIN svg :
           /\ i < j
           /\ IsToken(svg[i]) /\ IsToken(svg[j])
           /\ svg[j].x < svg[i].x

(***************************************************************************)
(* C6 (as claimed).  For every glyph try_parse_symbol returns, at polarity *)
(* 1 or 0, the value is the negated magnitude iff the sign cell            *)
(* (x, y+delta) equals the polarity, dy is delta+1 exactly when that flag  *)
(* is set and delta when it is clear, and dx is delta.                     *)
(***************************************************************************)
C6_SignAndExtent ==
    \A g \in Returned :
        /\ g.value = (IF SignSet(g) THEN 0 - g.magnitude ELSE g.magnitude)
        /\ g.dy = (IF SignSet(g) THEN g.delta + 1 ELSE g.delta)
        /\ g.dx = g.delta

(***************************************************************************)
(* C8 (as claimed).  A scan of a grid of width and height at least 3       *)
(* never reads or writes a coordinate outside the grid.                    *)
(***************************************************************************)
C8_InBounds ==
    ~(pc = "panic" /\ last.res.tag = "panic"
                   /\ last.res.panic = "index out of bounds")

(***************************************************************************)
(* C9 (as claimed).  When the decode at polarity 1 recurses into a full    *)
(* frame of extent delta at (x, y) and the inner call returns a glyph,     *)
(* that glyph's extent is smaller than delta, its box lies within          *)
(* x+1..x+delta-1 by y+1..y+delta-1, and the inner call did not recurse.   *)
(***************************************************************************)
C9_RecursionShrinks ==
    \A g \in Recognized :
        HasInner(g) =>
            /\ g.inner.dx < g.delta
            /\ g.inner.dy < g.delta
            /\ Box(g.inner) \subseteq
                   ((g.x + 1)..(g.x + g.delta - 1)) \X ((g.y + 1)..(g.y + g.delta - 1))
            /\ g.inner.inner.tag = "NotCalled"

(***************************************************************************)
(* C10 (as claimed).  For every glyph try_parse_symbol accepts, whatever   *)
(* its extent, the magnitude is the exact sum of 2^(cy*(delta-1)+cx) over  *)
(* the body cells that equal the polarity; every shift amount and the sum  *)
(* fit an i32: no shift of 32 bits or more, no wrap-around.                *)
(***************************************************************************)
OverflowPanics ==
    {"attempt to shift left with overflow", "attempt to add with overflow",
     "attempt to negate with overflow"}

C10_MagnitudeExact ==
    /\ ~(pc = "panic" /\ last.res.tag = "panic" /\ last.res.panic \in OverflowPanics)
    /\ \A g \in Returned :
           /\ \A b \in BodyBits(g.x, g.y, g.delta, g.set) : b < 31
           /\ g.magnitude = SumPow2(BodyBits(g.x, g.y, g.delta, g.set))

(***************************************************************************)
(* C1.  Round trip: for every value v from 0 up to 2^25 (tried: 0..        *)
(* MaxValue, 2^24 - 1, 2^24 and 2^25 - 1), the glyph of encode_symbol(v),  *)
(* drawn on a clear picture with a clear margin, is read back by the       *)
(* payload step at its top-left corner with polarity 1 as magnitude v,     *)
(* with extent d + 1 for the encoder's side length d.                      *)
(***************************************************************************)
RoundTripLimit == Pow2(25)

C1_RoundTrip ==
    (pc = "decoded" /\ token_value < RoundTripLimit) =>
        /\ encoded.tag = "image"
        /\ last.res.tag = "payload"
        /\ last.res.magnitude = token_value
        /\ last.res.delta = encoded.d + 1

C1_Witness ==
    /\ pc = "decoded"
    /\ token_value = 4096
    /\ last.res.tag = "payload"
    /\ last.res.magnitude = 4096
    /\ last.res.delta = 5

(***************************************************************************)
(* C7 (as claimed).  For every value >= 0 the side length d of             *)
(* encode_symbol is the smallest integer with d*d at least the number of   *)
(* bits needed to represent value + 1 in binary (d = 1 for value 0).       *)
(***************************************************************************)
\* the number of binary digits of n >= 1
BitLength(n) == CHOOSE k \in 1..30 : Pow2(k - 1) <= n /\ n < Pow2(k)

\* the smallest d with d * d >= bits
SmallestSide(bits) ==
    CHOOSE d \in 0..bits : d * d >= bits /\ \A e \in 0..(d - 1) : e * e < bits

Encoded == encoded.tag \in {"image", "panic"}

====
